---- MODULE Spec2Model ----
(***************************************************************************)
(* Model of frontend/app.py: the in-memory room registry                   *)
(* (EphemeralCallSystem) shared, without any lock, by the foreground       *)
(* request handlers, the background sweep thread (periodic_cleanup) and    *)
(* the atexit handler (emergency_cleanup).                                 *)
(*                                                                         *)
(* Each handler is cut at the places where it reads or writes the shared   *)
(* table or a room object: those are the points at which CPython can       *)
(* switch threads, and the steps between two such points touch only        *)
(* locals.  A call and its first access are one step.                      *)
(***************************************************************************)
EXTENDS Integers, Sequences, FiniteSets, TLC

----------------------------------------------------------------------------
\* Bounds of the model.
MaxRooms == 2
MaxUsers == 2
MaxTicks == 2
TickLen == 1800
CapTicks == 1

\* Constants of the program.
MaxParticipants == 10
StaleAfter == 1800
SleepPeriod == 300

Clients == {"c1", "c2"}
RoomIds == 1 .. MaxRooms
\* An identifier no room was ever created under (also the falsy room id).
Unknown == 0
\* Display names as sequences of characters.
CreateNames == {<<" ">>, <<"a">>}
JoinNames == {<<"b">>}

\* The limits a specification runs under: the handler threads that run, the
\* rooms created, the tokens drawn for one room, the ticks of the clock.
Lim == [clients |-> Clients, rooms |-> 1, users |-> MaxUsers,
        ticks |-> MaxTicks]
SweepLim == [clients |-> {"c1"}, rooms |-> MaxRooms, users |-> 2,
             ticks |-> MaxTicks]
\* CapSpec: one room, which may fill up (two handler threads can take it to
\* MaxParticipants + 1 at most, so users is no limit there).
CapLim == [rooms |-> 1, users |-> MaxParticipants + 2, ticks |-> CapTicks]

----------------------------------------------------------------------------
\* str.strip() on a sequence of characters.
RECURSIVE LStrip(_)
LStrip(s) == IF s # <<>> /\ Head(s) = " " THEN LStrip(Tail(s)) ELSE s

RECURSIVE RStrip(_)
RStrip(s) ==
  IF s # <<>> /\ s[Len(s)] = " " THEN RStrip(SubSeq(s, 1, Len(s) - 1)) ELSE s

Strip(s) == RStrip(LStrip(s))

----------------------------------------------------------------------------
VARIABLES
  active_rooms,  \* the keys of self.active_rooms, each bound to heap[key]
  heap,          \* the room dict objects, by the id they were created under
  next_room,     \* the next fresh room token (generate_room_id)
  now,           \* time.time()
  exiting,       \* the interpreter is shutting down: atexit handlers have run
  end_called,    \* the ids on which end_call_permanently has set call_ended
  pc,            \* per handler thread: its position
  frame,         \* per handler thread: the arguments and locals of its call
  ret,           \* per handler thread: what its call returned (at "done")
  sweep,         \* the periodic_cleanup thread: position and locals
  call_handler,  \* the attributes of the one CallHandler, call_handler
  ui             \* per client: its call into the session controller

\* The room ids a caller can present: those issued so far, and an unknown one.
RoomArgs == {r \in RoomIds : r < next_room} \cup {Unknown}

vars == <<active_rooms, heap, next_room, now, exiting, end_called,
          pc, frame, ret, sweep, call_handler, ui>>

\* The session controller and the calls into it.
session == <<call_handler, ui>>

\* A room object that no longer exists (or does not exist yet).
Freed ==
  [creator |-> 0, participants |-> <<>>, pending_approvals |-> <<>>,
   user_names |-> <<>>, last_activity |-> 0, call_ended |-> FALSE]

\* A create_room whose room is born with 'call_ended' set.
NewRoomEnded(user_id, user_name, t) ==
  [creator |-> user_id, participants |-> <<user_id>>,
   pending_approvals |-> <<>>,
   user_names |-> <<[id |-> user_id, name |-> user_name]>>,
   last_activity |-> t, call_ended |-> TRUE]

\* The dict literal of create_room. user_names is an insertion-ordered dict:
\* a sequence of (key, value) entries. 'created_at' is written here and read
\* nowhere in the program: the model leaves it out.
NewRoom(user_id, user_name, t) ==
  [creator |-> user_id, participants |-> <<user_id>>,
   pending_approvals |-> <<>>,
   user_names |-> <<[id |-> user_id, name |-> user_name]>>,
   last_activity |-> t, call_ended |-> FALSE]

NoFrame ==
  [op |-> "none", room_id |-> Unknown, user_name |-> <<>>, room |-> 0,
   user_id |-> 0, count |-> 0, after_end |-> FALSE]

NoRet == [kind |-> "none", room_id |-> 0, user_id |-> 0, count |-> 0,
          names |-> <<>>]

Ret(kind) == [NoRet EXCEPT !.kind = kind]

\* The room objects some running call still holds in its local `room`.
Held(fr) == {fr[t].room : t \in Clients} \ {0}

\* Objects neither in the table nor held by a call are gone.
Collect(h, table, fr) ==
  [r \in RoomIds |-> IF r \in table \/ r \in Held(fr) THEN h[r] ELSE Freed]

SweepIdle(secs) ==
  [pc |-> "sleep", sleep_left |-> secs, now |-> 0, size |-> 0, left |-> 0,
   pos |-> 0, stale_rooms |-> <<>>]

\* `None`, and the values video_handler and audio_handler substitute:
\* np.zeros((480, 640, 3)) and (16000, np.zeros((1, 1600))).
None == "None"
Blank == "blank_frame"
Silence == "silence"
\* What the media pipeline delivers: a frame or None, samples or None.
Frames == {None, "frame"}
Samples == {None, "samples"}

\* CallHandler.__init__
NewCallHandler == [video_enabled |-> TRUE, audio_enabled |-> TRUE]

NoCall == [pc |-> "idle", op |-> "none", flag |-> "none", room_id |-> Unknown,
           input |-> None, value |-> FALSE, ret |-> None]

Init ==
  /\ active_rooms = {}
  /\ heap = [r \in RoomIds |-> Freed]
  /\ next_room = 1
  /\ now = 0
  /\ exiting = FALSE
  /\ end_called = {}
  /\ pc = [t \in Clients |-> "idle"]
  /\ frame = [t \in Clients |-> NoFrame]
  /\ ret = [t \in Clients |-> NoRet]
  /\ sweep = SweepIdle(SleepPeriod)
  /\ call_handler = NewCallHandler
  /\ ui = [t \in Clients |-> NoCall]

----------------------------------------------------------------------------
\* How a step of handler thread t leaves the thread and the table.

\* The arguments of a call that starts now.
Args(op, r, name) ==
  [NoFrame EXCEPT !.op = op, !.room_id = r, !.user_name = name,
                  !.after_end = (r \in end_called)]

\* A call that has returned is seen at the moment it returns: handing the
\* result back (Return) is the next step of the program.
Running == \A t \in Clients : pc[t] # "done"

\* The call goes on at position p with locals f.
Goto(t, p, f, h, table) ==
  /\ Running
  /\ pc' = [pc EXCEPT ![t] = p]
  /\ frame' = [frame EXCEPT ![t] = f]
  /\ ret' = ret
  /\ active_rooms' = table
  /\ heap' = Collect(h, table, frame')
  /\ UNCHANGED session

\* The call returns result (or raises: kind "KeyError"); its local `room` dies.
Done(t, f, result, h, table) ==
  /\ Running
  /\ pc' = [pc EXCEPT ![t] = "done"]
  /\ frame' = [frame EXCEPT ![t] = [f EXCEPT !.room = 0]]
  /\ ret' = [ret EXCEPT ![t] = result]
  /\ active_rooms' = table
  /\ heap' = Collect(h, table, frame')
  /\ UNCHANGED session

\* The caller has taken the result; the thread is free for the next event.
Return(t) ==
  /\ pc[t] = "done"
  /\ pc' = [pc EXCEPT ![t] = "idle"]
  /\ frame' = [frame EXCEPT ![t] = NoFrame]
  /\ ret' = [ret EXCEPT ![t] = NoRet]
  /\ UNCHANGED <<active_rooms, heap, next_room, now, exiting, end_called,
                 sweep, session>>

----------------------------------------------------------------------------
\* secrets.token_urlsafe(8): a participant token is opaque and the code never
\* compares two of them, so a token is named when it enters a room's
\* participants, by its place there: distinct tokens of a room stay distinct.
FreshUser(room) == Len(room.participants) + 1

\* The calls that hold a token for room object r and have not appended it yet.
Joining(r) ==
  {t \in Clients : frame[t].room = r /\ pc[t] \in {"join_full", "join_append"}}

\* A generate_room_id that hands out again a token whose room has gone.
ReusedRoomId ==
  IF \E r \in RoomIds : r < next_room /\ r \notin active_rooms
    THEN CHOOSE r \in RoomIds : r < next_room /\ r \notin active_rooms
    ELSE next_room

\* generate_room_id: secrets.token_urlsafe(16), a token never drawn before.
GenerateRoomId == next_room

\* create_room: one store into the table.
DoCreate(t, op, name, lim) ==
  /\ next_room <= lim.rooms
  /\ LET room_id == GenerateRoomId
         user_id == FreshUser(Freed)
     IN Done(t, Args(op, Unknown, name),
             [Ret("Created") EXCEPT !.room_id = room_id, !.user_id = user_id],
             [heap EXCEPT ![room_id] = NewRoom(user_id, name, now)],
             active_rooms \cup {room_id})
  /\ next_room' = next_room + 1
  /\ UNCHANGED <<now, exiting, end_called, sweep>>

CreateRoom(t, name, lim) ==
  /\ pc[t] = "idle" /\ ~exiting
  /\ DoCreate(t, "create_room", name, lim)

\* create_room_interface: the presentation layer's check, then create_room
\* on the stripped name.
CreateRoomInterface(t, name, lim) ==
  /\ pc[t] = "idle" /\ ~exiting
  /\ IF Strip(name) = <<>>
       THEN /\ Done(t, Args("create_room_interface", Unknown, name),
                    Ret("InvalidInput"), heap, active_rooms)
            /\ UNCHANGED <<next_room, now, exiting, end_called, sweep>>
       ELSE DoCreate(t, "create_room_interface", Strip(name), lim)

----------------------------------------------------------------------------
\* request_join, line by line.

\* A request_join that remembers the ids it has issued and tells a caller
\* that the room has expired.
JoinInTombstone(t, r, name) ==
  /\ pc[t] = "idle" /\ ~exiting
  /\ IF r \notin active_rooms
       THEN Done(t, Args("request_join", r, name),
                 Ret(IF r # Unknown /\ r < next_room
                       THEN "RoomExpired" ELSE "RoomNotFound"),
                 heap, active_rooms)
       ELSE Goto(t, "join_lookup", Args("request_join", r, name),
                 heap, active_rooms)
  /\ UNCHANGED <<next_room, now, exiting, end_called, sweep>>

\* `if room_id not in self.active_rooms: return ... "Room not found ..."`
JoinIn(t, r, name) ==
  /\ pc[t] = "idle" /\ ~exiting
  /\ IF r \notin active_rooms
       THEN Done(t, Args("request_join", r, name), Ret("RoomNotFound"),
                 heap, active_rooms)
       ELSE Goto(t, "join_lookup", Args("request_join", r, name),
                 heap, active_rooms)
  /\ UNCHANGED <<next_room, now, exiting, end_called, sweep>>

\* A request_join that counts the attempt as activity: it bumps
\* 'last_activity' as soon as it has the room.
JoinLookupBumps(t) ==
  /\ pc[t] = "join_lookup"
  /\ IF frame[t].room_id \notin active_rooms
       THEN Done(t, frame[t], Ret("KeyError"), heap, active_rooms)
       ELSE Goto(t, "join_ended", [frame[t] EXCEPT !.room = frame[t].room_id],
                 [heap EXCEPT ![frame[t].room_id].last_activity = now],
                 active_rooms)
  /\ UNCHANGED <<next_room, now, exiting, end_called, sweep>>

\* `room = self.active_rooms[room_id]`: KeyError when the key has gone.
JoinLookup(t) ==
  /\ pc[t] = "join_lookup"
  /\ IF frame[t].room_id \notin active_rooms
       THEN Done(t, frame[t], Ret("KeyError"), heap, active_rooms)
       ELSE Goto(t, "join_ended", [frame[t] EXCEPT !.room = frame[t].room_id],
                 heap, active_rooms)
  /\ UNCHANGED <<next_room, now, exiting, end_called, sweep>>

\* `if room.get('call_ended', False): return ...`, then the token is drawn
\* (lim.users bounds the tokens drawn for one room).
JoinEnded(t, lim) ==
  /\ pc[t] = "join_ended"
  /\ IF heap[frame[t].room].call_ended
       THEN Done(t, frame[t], Ret("CallEnded"), heap, active_rooms)
       ELSE /\ Len(heap[frame[t].room].participants)
                 + Cardinality(Joining(frame[t].room)) < lim.users
            /\ Goto(t, "join_full", frame[t], heap, active_rooms)
  /\ UNCHANGED <<next_room, now, exiting, end_called, sweep>>

\* The capacity test off by one: `len(room['participants']) > 10`.
RoomIsOverFull(room) == Len(room.participants) > MaxParticipants

\* `len(room['participants']) >= 10`
RoomIsFull(room) == Len(room.participants) >= MaxParticipants

\* `if len(room['participants']) >= 10: return ... "Room is full"`
JoinFull(t) ==
  /\ pc[t] = "join_full"
  /\ IF RoomIsFull(heap[frame[t].room])
       THEN Done(t, frame[t], Ret("RoomFull"), heap, active_rooms)
       ELSE Goto(t, "join_append", frame[t], heap, active_rooms)
  /\ UNCHANGED <<next_room, now, exiting, end_called, sweep>>

\* `room['participants'].append(user_id)`
AppendParticipant(room, user_id) ==
  [room EXCEPT !.participants = Append(@, user_id)]

JoinAppend(t) ==
  /\ pc[t] = "join_append"
  /\ LET user_id == FreshUser(heap[frame[t].room])
     IN Goto(t, "join_name", [frame[t] EXCEPT !.user_id = user_id],
             [heap EXCEPT ![frame[t].room] = AppendParticipant(@, user_id)],
             active_rooms)
  /\ UNCHANGED <<next_room, now, exiting, end_called, sweep>>

\* A request_join that does not record the display name.
JoinNameSkipped(t) ==
  /\ pc[t] = "join_name"
  /\ Goto(t, "join_touch", frame[t], heap, active_rooms)
  /\ UNCHANGED <<next_room, now, exiting, end_called, sweep>>

\* `room['user_names'][user_id] = user_name`: user_id is a fresh key.
JoinName(t) ==
  /\ pc[t] = "join_name"
  /\ Goto(t, "join_touch", frame[t],
          [heap EXCEPT ![frame[t].room].user_names =
             Append(@, [id |-> frame[t].user_id, name |-> frame[t].user_name])],
          active_rooms)
  /\ UNCHANGED <<next_room, now, exiting, end_called, sweep>>

\* `room['last_activity'] = time.time()`
Touch(room, t) == [room EXCEPT !.last_activity = t]

\* ... and `return user_id, room_id, f"Joined room {room_id}"`
JoinTouch(t) ==
  /\ pc[t] = "join_touch"
  /\ Done(t, frame[t],
          [Ret("Joined") EXCEPT !.room_id = frame[t].room_id,
                                !.user_id = frame[t].user_id],
          [heap EXCEPT ![frame[t].room] = Touch(@, now)],
          active_rooms)
  /\ UNCHANGED <<next_room, now, exiting, end_called, sweep>>

----------------------------------------------------------------------------
\* end_call_permanently.

\* `if room_id in self.active_rooms:`
EndIn(t, r) ==
  /\ pc[t] = "idle" /\ ~exiting
  /\ IF r \notin active_rooms
       THEN Done(t, Args("end_call_permanently", r, <<>>), Ret("None"),
                 heap, active_rooms)
       ELSE Goto(t, "end_set", Args("end_call_permanently", r, <<>>),
                 heap, active_rooms)
  /\ UNCHANGED <<next_room, now, exiting, end_called, sweep>>

\* An end_call_permanently that leaves the flag as it was.
EndRoomKeepsFlag(room) == room

\* An end_call_permanently that flips the flag.
EndRoomToggles(room) == [room EXCEPT !.call_ended = ~@]

\* `... ['call_ended'] = True`
EndRoom(room) == [room EXCEPT !.call_ended = TRUE]

\* `self.active_rooms[room_id]['call_ended'] = True`
EndSet(t) ==
  /\ pc[t] = "end_set"
  /\ IF frame[t].room_id \notin active_rooms
       THEN /\ Done(t, frame[t], Ret("KeyError"), heap, active_rooms)
            /\ end_called' = end_called
       ELSE /\ Done(t, frame[t], Ret("None"),
                    [heap EXCEPT ![frame[t].room_id] = EndRoom(@)],
                    active_rooms)
            /\ end_called' = end_called \cup {frame[t].room_id}
  /\ UNCHANGED <<next_room, now, exiting, sweep>>

----------------------------------------------------------------------------
\* can_start_call.

\* can_start_call run on its own on a table.
CanStartCall(table, h, r) == r \in table /\ ~h[r].call_ended

Bool(b) == Ret(IF b THEN "True" ELSE "False")

\* `if room_id not in self.active_rooms: return False`
CanIn(t, r) ==
  /\ pc[t] = "idle" /\ ~exiting
  /\ IF r \notin active_rooms
       THEN Done(t, Args("can_start_call", r, <<>>), Bool(FALSE),
                 heap, active_rooms)
       ELSE Goto(t, "can_get", Args("can_start_call", r, <<>>),
                 heap, active_rooms)
  /\ UNCHANGED <<next_room, now, exiting, end_called, sweep>>

\* `return not self.active_rooms[room_id].get('call_ended', False)`
CanGet(t) ==
  /\ pc[t] = "can_get"
  /\ IF frame[t].room_id \notin active_rooms
       THEN Done(t, frame[t], Ret("KeyError"), heap, active_rooms)
       ELSE Done(t, frame[t], Bool(~heap[frame[t].room_id].call_ended),
                 heap, active_rooms)
  /\ UNCHANGED <<next_room, now, exiting, end_called, sweep>>

----------------------------------------------------------------------------
\* get_status.

\* `list(room['user_names'].values())`
NamesOf(room) ==
  [i \in 1 .. Len(room.user_names) |-> room.user_names[i].name]

Active(count, names) ==
  [Ret("Active") EXCEPT !.count = count, !.names = names]

\* get_status run on its own on a table.
GetStatus(table, h, r) ==
  IF r = Unknown \/ r \notin table THEN Ret("RoomNotFound")
  ELSE IF h[r].call_ended THEN Ret("CallEnded")
  ELSE Active(Len(h[r].participants), NamesOf(h[r]))

\* `if not room_id or room_id not in self.active_rooms:`
StatusIn(t, r) ==
  /\ pc[t] = "idle" /\ ~exiting
  /\ IF r = Unknown \/ r \notin active_rooms
       THEN Done(t, Args("get_status", r, <<>>), Ret("RoomNotFound"),
                 heap, active_rooms)
       ELSE Goto(t, "status_lookup", Args("get_status", r, <<>>),
                 heap, active_rooms)
  /\ UNCHANGED <<next_room, now, exiting, end_called, sweep>>

\* A get_status that counts as activity: it bumps 'last_activity' of the
\* room it looks up.
StatusLookupBumps(t) ==
  /\ pc[t] = "status_lookup"
  /\ IF frame[t].room_id \notin active_rooms
       THEN Done(t, frame[t], Ret("KeyError"), heap, active_rooms)
       ELSE Goto(t, "status_ended",
                 [frame[t] EXCEPT !.room = frame[t].room_id],
                 [heap EXCEPT ![frame[t].room_id] = Touch(@, now)],
                 active_rooms)
  /\ UNCHANGED <<next_room, now, exiting, end_called, sweep>>

\* `room = self.active_rooms[room_id]`
StatusLookup(t) ==
  /\ pc[t] = "status_lookup"
  /\ IF frame[t].room_id \notin active_rooms
       THEN Done(t, frame[t], Ret("KeyError"), heap, active_rooms)
       ELSE Goto(t, "status_ended",
                 [frame[t] EXCEPT !.room = frame[t].room_id],
                 heap, active_rooms)
  /\ UNCHANGED <<next_room, now, exiting, end_called, sweep>>

\* `if room.get('call_ended', False): return ...`
StatusEnded(t) ==
  /\ pc[t] = "status_ended"
  /\ IF heap[frame[t].room].call_ended
       THEN Done(t, frame[t], Ret("CallEnded"), heap, active_rooms)
       ELSE Goto(t, "status_len", frame[t], heap, active_rooms)
  /\ UNCHANGED <<next_room, now, exiting, end_called, sweep>>

\* `status = f"... Participants: {len(room['participants'])}"`
StatusLen(t) ==
  /\ pc[t] = "status_len"
  /\ Goto(t, "status_names",
          [frame[t] EXCEPT !.count = Len(heap[frame[t].room].participants)],
          heap, active_rooms)
  /\ UNCHANGED <<next_room, now, exiting, end_called, sweep>>

\* `names = list(room['user_names'].values())` ... `return status`
StatusNames(t) ==
  /\ pc[t] = "status_names"
  /\ Done(t, [frame[t] EXCEPT !.count = 0],
          Active(frame[t].count, NamesOf(heap[frame[t].room])),
          heap, active_rooms)
  /\ UNCHANGED <<next_room, now, exiting, end_called, sweep>>

----------------------------------------------------------------------------
\* emergency_cleanup, the atexit handler: `self.active_rooms.clear()`.  It
\* runs once the main thread has ended: no new handler call starts, while the
\* calls in flight and the daemon sweep thread still run.
EmergencyCleanup ==
  /\ Running
  /\ ~exiting
  /\ exiting' = TRUE
  /\ active_rooms' = {}
  /\ heap' = Collect(heap, {}, frame)
  /\ UNCHANGED <<next_room, now, end_called, pc, frame, ret, sweep, session>>

----------------------------------------------------------------------------
\* periodic_cleanup, the sweep thread.  An exception that leaves the loop ends
\* the thread: its position is then the exception's name.

SweepDead(exc) == [SweepIdle(0) EXCEPT !.pc = exc]

SweepErrors == {"RuntimeError", "KeyError"}

\* The staleness test with the boundary included: `... >= 1800`.
IsStaleAtBoundary(room, t) == t - room.last_activity >= StaleAfter

\* `now - room.get('last_activity', 0) > 1800`
IsStale(room, t) == t - room.last_activity > StaleAfter

\* The stale list is complete or a room is done: the next room, or the
\* next `time.sleep(300)`.
SweepNext(rest) ==
  IF rest = <<>> THEN SweepIdle(SleepPeriod)
  ELSE [sweep EXCEPT !.pc = "clean_in", !.stale_rooms = rest]

\* time.sleep(300) returns; `now = time.time()`; the comprehension takes its
\* iterator over self.active_rooms.items(), which records the table's size.
SweepWake ==
  /\ Running
  /\ sweep.pc = "sleep"
  /\ sweep.sleep_left = 0
  /\ sweep' = [pc |-> "scan", sleep_left |-> 0, now |-> now,
               size |-> Cardinality(active_rooms),
               left |-> Cardinality(active_rooms), pos |-> 0,
               stale_rooms |-> <<>>]
  /\ UNCHANGED <<active_rooms, heap, next_room, now, exiting, end_called, pc,
                 frame, ret, session>>

\* One turn of the comprehension: the dict iterator's next item (keys in
\* insertion order, which is the order of their creation) and the filter.
\* The iterator raises RuntimeError when the table's size is not the one it
\* recorded, and when it finds an item after having yielded that many.
SweepScan ==
  /\ Running
  /\ sweep.pc = "scan"
  /\ LET rest == {r \in active_rooms : r > sweep.pos}
         k == CHOOSE r \in rest : \A q \in rest : r <= q
     IN sweep' =
          IF Cardinality(active_rooms) # sweep.size THEN SweepDead("RuntimeError")
          ELSE IF rest = {} THEN SweepNext(sweep.stale_rooms)
          ELSE IF sweep.left = 0 THEN SweepDead("RuntimeError")
          ELSE [sweep EXCEPT
                  !.pos = k, !.left = @ - 1,
                  !.stale_rooms = IF IsStale(heap[k], sweep.now)
                                    THEN Append(@, k) ELSE @]
  /\ UNCHANGED <<active_rooms, heap, next_room, now, exiting, end_called, pc,
                 frame, ret, session>>

\* cleanup_room(room_id) of the loop: `if room_id in self.active_rooms:`
SweepCleanIn ==
  /\ Running
  /\ sweep.pc = "clean_in"
  /\ sweep' = IF Head(sweep.stale_rooms) \in active_rooms
                THEN [sweep EXCEPT !.pc = "clean_del"]
                ELSE SweepNext(Tail(sweep.stale_rooms))
  /\ UNCHANGED <<active_rooms, heap, next_room, now, exiting, end_called, pc,
                 frame, ret, session>>

\* `del self.active_rooms[room_id]`
SweepCleanDel ==
  /\ Running
  /\ sweep.pc = "clean_del"
  /\ LET r == Head(sweep.stale_rooms)
     IN IF r \notin active_rooms
          THEN /\ sweep' = SweepDead("KeyError")
               /\ UNCHANGED <<active_rooms, heap>>
          ELSE /\ sweep' = SweepNext(Tail(sweep.stale_rooms))
               /\ active_rooms' = active_rooms \ {r}
               /\ heap' = Collect(heap, active_rooms', frame)
  /\ UNCHANGED <<next_room, now, exiting, end_called, pc, frame, ret, session>>

----------------------------------------------------------------------------
\* time.time() moves on by TickLen seconds, and the sweep's sleep with it.
Tick(lim) ==
  /\ Running
  /\ now + TickLen <= lim.ticks * TickLen
  /\ now' = now + TickLen
  /\ sweep' = IF sweep.pc = "sleep"
                THEN [sweep EXCEPT !.sleep_left =
                        IF @ > TickLen THEN @ - TickLen ELSE 0]
                ELSE sweep
  /\ UNCHANGED <<active_rooms, heap, next_room, exiting, end_called, pc,
                 frame, ret, session>>

----------------------------------------------------------------------------
\* The registry as a value, and its methods run on their own on such a value.

\* self.active_rooms: the dict from the keys to the room objects.
Registry(table, h) == [r \in table |-> h[r]]

\* end_call_permanently(room_id)
EndCallPermanently(rooms, r) ==
  IF r \in DOMAIN rooms THEN [rooms EXCEPT ![r] = EndRoom(@)] ELSE rooms

\* cleanup_room(room_id)
CleanupRoom(rooms, r) ==
  IF r \in DOMAIN rooms THEN [q \in DOMAIN rooms \ {r} |-> rooms[q]]
  ELSE rooms

----------------------------------------------------------------------------
\* The session controller: the one CallHandler object, call_handler, which
\* every client's toggle, end-call and frame events reach.

\* A video_handler that passes on whatever it is given while video is on.
VideoHandlerPassesNone(video_enabled, f) ==
  IF video_enabled THEN f ELSE Blank

\* video_handler(frame), on a value of the flag.
VideoHandler(video_enabled, f) ==
  IF f # None /\ video_enabled THEN f ELSE Blank

\* audio_handler(audio), on a value of the flag.
AudioHandler(audio_enabled, a) ==
  IF a # None /\ audio_enabled THEN a ELSE Silence

\* A call of client t into the controller that starts now.
Call(op, flag, r, input) ==
  [NoCall EXCEPT !.op = op, !.flag = flag, !.room_id = r, !.input = input]

\* Client t's call goes on as c (or returns: c.pc = "done"); the controller's
\* attributes become h.
Serve(t, c, h) ==
  /\ ui' = [ui EXCEPT ![t] = c]
  /\ call_handler' = h

\* toggle_video / toggle_audio: `not self.video_enabled` is evaluated ...
ToggleLoad(t, flag) ==
  /\ ui[t].pc = "idle" /\ ~exiting
  /\ Serve(t, [Call("toggle", flag, Unknown, None) EXCEPT
                 !.pc = "toggle_store", !.value = ~call_handler[flag]],
           call_handler)
  /\ UNCHANGED <<active_rooms, heap, next_room, now, exiting, end_called,
                 pc, frame, ret, sweep>>

\* ... and stored: `self.video_enabled = ...`
ToggleStore(t) ==
  /\ ui[t].pc = "toggle_store"
  /\ Serve(t, [ui[t] EXCEPT !.pc = "toggle_return"],
           [call_handler EXCEPT ![ui[t].flag] = ui[t].value])
  /\ UNCHANGED <<active_rooms, heap, next_room, now, exiting, end_called,
                 pc, frame, ret, sweep>>

\* `return self.video_enabled`: the attribute is read again.
ToggleReturn(t) ==
  /\ ui[t].pc = "toggle_return"
  /\ Serve(t, [ui[t] EXCEPT !.pc = "done", !.value = call_handler[ui[t].flag]],
           call_handler)
  /\ UNCHANGED <<active_rooms, heap, next_room, now, exiting, end_called,
                 pc, frame, ret, sweep>>

\* The media pipeline delivers a frame of client t's stream to video_handler.
VideoCallback(t, f) ==
  /\ ui[t].pc = "idle" /\ ~exiting
  /\ Serve(t, [Call("video_handler", "video_enabled", Unknown, f) EXCEPT
                 !.pc = "done",
                 !.ret = VideoHandler(call_handler.video_enabled, f)],
           call_handler)
  /\ UNCHANGED <<active_rooms, heap, next_room, now, exiting, end_called,
                 pc, frame, ret, sweep>>

\* ... and samples to audio_handler.
AudioCallback(t, a) ==
  /\ ui[t].pc = "idle" /\ ~exiting
  /\ Serve(t, [Call("audio_handler", "audio_enabled", Unknown, a) EXCEPT
                 !.pc = "done",
                 !.ret = AudioHandler(call_handler.audio_enabled, a)],
           call_handler)
  /\ UNCHANGED <<active_rooms, heap, next_room, now, exiting, end_called,
                 pc, frame, ret, sweep>>

\* end_call_interface(room_id): `if room_id:`, then end_call_permanently's
\* `if room_id in self.active_rooms:`
EndCallIn(t, r) ==
  /\ ui[t].pc = "idle" /\ ~exiting
  /\ Serve(t, [Call("end_call_interface", "none", r, None) EXCEPT
                 !.pc = IF r # Unknown /\ r \in active_rooms
                          THEN "end_store" ELSE "reset_video"],
           call_handler)
  /\ UNCHANGED <<active_rooms, heap, next_room, now, exiting, end_called,
                 pc, frame, ret, sweep>>

\* `self.active_rooms[room_id]['call_ended'] = True`: a KeyError leaves
\* end_call_interface before it resets the flags.
EndCallStore(t) ==
  /\ ui[t].pc = "end_store"
  /\ IF ui[t].room_id \notin active_rooms
       THEN /\ Serve(t, [ui[t] EXCEPT !.pc = "done", !.ret = "KeyError"],
                     call_handler)
            /\ UNCHANGED <<heap, end_called>>
       ELSE /\ Serve(t, [ui[t] EXCEPT !.pc = "reset_video"], call_handler)
            /\ heap' = [heap EXCEPT ![ui[t].room_id] = EndRoom(@)]
            /\ end_called' = end_called \cup {ui[t].room_id}
  /\ UNCHANGED <<active_rooms, next_room, now, exiting, pc, frame, ret, sweep>>

\* `call_handler.video_enabled = True`
ResetVideo(t) ==
  /\ ui[t].pc = "reset_video"
  /\ Serve(t, [ui[t] EXCEPT !.pc = "reset_audio"],
           [call_handler EXCEPT !.video_enabled = TRUE])
  /\ UNCHANGED <<active_rooms, heap, next_room, now, exiting, end_called,
                 pc, frame, ret, sweep>>

\* `call_handler.audio_enabled = True`, and the updates are returned.
ResetAudio(t) ==
  /\ ui[t].pc = "reset_audio"
  /\ Serve(t, [ui[t] EXCEPT !.pc = "done"],
           [call_handler EXCEPT !.audio_enabled = TRUE])
  /\ UNCHANGED <<active_rooms, heap, next_room, now, exiting, end_called,
                 pc, frame, ret, sweep>>

\* The event of client t has been answered.
CallReturn(t) ==
  /\ ui[t].pc = "done"
  /\ Serve(t, NoCall, call_handler)
  /\ UNCHANGED <<active_rooms, heap, next_room, now, exiting, end_called,
                 pc, frame, ret, sweep>>

----------------------------------------------------------------------------
\* The program: handler threads, the sweep thread, the atexit handler.
Program(lim) ==
  \/ \E t \in lim.clients, name \in CreateNames : CreateRoom(t, name, lim)
  \/ \E t \in lim.clients, name \in CreateNames :
       CreateRoomInterface(t, name, lim)
  \/ \E t \in lim.clients, r \in RoomArgs, name \in JoinNames :
       JoinIn(t, r, name)
  \/ \E t \in lim.clients : JoinLookup(t)
  \/ \E t \in lim.clients : JoinEnded(t, lim)
  \/ \E t \in lim.clients : JoinFull(t)
  \/ \E t \in lim.clients : JoinAppend(t)
  \/ \E t \in lim.clients : JoinName(t)
  \/ \E t \in lim.clients : JoinTouch(t)
  \/ \E t \in lim.clients, r \in RoomArgs : EndIn(t, r)
  \/ \E t \in lim.clients : EndSet(t)
  \/ \E t \in lim.clients, r \in RoomArgs : CanIn(t, r)
  \/ \E t \in lim.clients : CanGet(t)
  \/ \E t \in lim.clients, r \in RoomArgs : StatusIn(t, r)
  \/ \E t \in lim.clients : StatusLookup(t)
  \/ \E t \in lim.clients : StatusEnded(t)
  \/ \E t \in lim.clients : StatusLen(t)
  \/ \E t \in lim.clients : StatusNames(t)
  \/ \E t \in lim.clients : Return(t)
  \/ EmergencyCleanup
  \/ SweepWake
  \/ SweepScan
  \/ SweepCleanIn
  \/ SweepCleanDel
  \/ Tick(lim)

\* Two handler threads racing on one room, with the sweep and the exit.
Next == Program(Lim)

Spec == Init /\ [][Next]_vars

\* The program as it is wired (rooms are created through
\* create_room_interface): one handler thread, several rooms, the sweep and
\* the exit.
SweepNextRel ==
  \/ \E t \in SweepLim.clients, name \in CreateNames :
       CreateRoomInterface(t, name, SweepLim)
  \/ \E t \in SweepLim.clients, r \in RoomArgs, name \in JoinNames :
       JoinIn(t, r, name)
  \/ \E t \in SweepLim.clients : JoinLookup(t)
  \/ \E t \in SweepLim.clients : JoinEnded(t, SweepLim)
  \/ \E t \in SweepLim.clients : JoinFull(t)
  \/ \E t \in SweepLim.clients : JoinAppend(t)
  \/ \E t \in SweepLim.clients : JoinName(t)
  \/ \E t \in SweepLim.clients : JoinTouch(t)
  \/ \E t \in SweepLim.clients, r \in RoomArgs : EndIn(t, r)
  \/ \E t \in SweepLim.clients : EndSet(t)
  \/ \E t \in SweepLim.clients : Return(t)
  \/ EmergencyCleanup
  \/ SweepWake
  \/ SweepScan
  \/ SweepCleanIn
  \/ SweepCleanDel
  \/ Tick(SweepLim)

SweepSpec == Init /\ [][SweepNextRel]_vars

\* The same handlers on a single room that may fill up: create, join, time.
CapNext ==
  \/ \E t \in Clients, name \in CreateNames : CreateRoom(t, name, CapLim)
  \/ \E t \in Clients, r \in RoomArgs, name \in JoinNames : JoinIn(t, r, name)
  \/ \E t \in Clients : JoinLookup(t)
  \/ \E t \in Clients : JoinEnded(t, CapLim)
  \/ \E t \in Clients : JoinFull(t)
  \/ \E t \in Clients : JoinAppend(t)
  \/ \E t \in Clients : JoinName(t)
  \/ \E t \in Clients : JoinTouch(t)
  \/ \E t \in Clients : Return(t)
  \/ Tick(CapLim)

CapSpec == Init /\ [][CapNext]_vars

\* Joins that fail: the room that may fill up, with end_call_permanently.
FailNext ==
  \/ CapNext
  \/ \E t \in Clients, r \in RoomArgs : EndIn(t, r)
  \/ \E t \in Clients : EndSet(t)

FailSpec == Init /\ [][FailNext]_vars

\* The clients' events on the session controller, each client with a room of
\* its own to end.
HandlerLim == [rooms |-> MaxRooms]

HandlerNext ==
  \/ \E t \in Clients, name \in CreateNames :
       CreateRoomInterface(t, name, HandlerLim)
  \/ \E t \in Clients : Return(t)
  \/ \E t \in Clients, flag \in {"video_enabled", "audio_enabled"} :
       ToggleLoad(t, flag)
  \/ \E t \in Clients : ToggleStore(t)
  \/ \E t \in Clients : ToggleReturn(t)
  \/ \E t \in Clients, f \in Frames : VideoCallback(t, f)
  \/ \E t \in Clients, a \in Samples : AudioCallback(t, a)
  \/ \E t \in Clients, r \in RoomArgs : EndCallIn(t, r)
  \/ \E t \in Clients : EndCallStore(t)
  \/ \E t \in Clients : ResetVideo(t)
  \/ \E t \in Clients : ResetAudio(t)
  \/ \E t \in Clients : CallReturn(t)

HandlerSpec == Init /\ [][HandlerNext]_vars

----------------------------------------------------------------------------
\* The properties of the registry.

\* C1: in every reachable state, two or more request_join calls on the same
\* room interleaved in any way included, each room in the registry has at
\* most 10 participants, the creator counted as the first.
C1_AtMostTenParticipants ==
  \A r \in active_rooms : Len(heap[r].participants) <= MaxParticipants

\* C2, as the specification states it, for the calls that return a value:
\* once end_call_permanently has set the flag of a room, every request_join
\* that starts afterwards on that id fails with "Call has ended" and every
\* can_start_call that starts afterwards returns False, whatever runs in
\* between, sweep cycles included.
C2_JoinAfterEndFailsCallEnded ==
  \A t \in Clients :
    (pc[t] = "done" /\ frame[t].after_end /\ ret[t].kind # "KeyError") =>
      /\ frame[t].op = "request_join" => ret[t].kind = "CallEnded"
      /\ frame[t].op = "can_start_call" => ret[t].kind = "False"

\* C2, amended: once end_call_permanently has set the flag of a room, the
\* flag stays set for as long as the room is in the registry, and no
\* request_join that starts afterwards on that id succeeds: it fails with
\* "Call has ended" while the room is registered, with "Room not found" once
\* the room has been removed, and raises KeyError when the room is removed
\* between its membership test and its lookup; a can_start_call that starts
\* afterwards returns False, or raises KeyError in that same case.
C2_JoinAfterEndNeverSucceeds ==
  /\ \A r \in end_called : r \in active_rooms => heap[r].call_ended
  /\ \A t \in Clients :
       (pc[t] = "done" /\ frame[t].after_end) =>
         /\ frame[t].op = "request_join" =>
              \/ ret[t].kind = "CallEnded"
              \/ /\ ret[t].kind \in {"RoomNotFound", "KeyError"}
                 /\ frame[t].room_id \notin active_rooms
         /\ frame[t].op = "can_start_call" =>
              \/ ret[t].kind = "False"
              \/ /\ ret[t].kind = "KeyError"
                 /\ frame[t].room_id \notin active_rooms

\* A request_join on an ended room that the sweep has removed returns
\* "Room not found".
C2_Witness ==
  \E t \in Clients :
    /\ pc[t] = "done" /\ frame[t].op = "request_join" /\ frame[t].after_end
    /\ ret[t].kind = "RoomNotFound"
    /\ ~exiting

\* C3: the life of a room id only moves forward.  In every step of create,
\* join, end, sweep (with its cleanup_room) and emergency clear: a room that
\* is in the registry with its flag set and stays in the registry keeps the
\* flag set; an id that was issued and is no longer in the registry is not
\* in it afterwards either; and a request_join that starts on such an id
\* returns "Room not found" at once and changes nothing.
C3_LifecycleForwardOnly ==
  [][\A r \in RoomIds :
       /\ (r \in active_rooms /\ heap[r].call_ended /\ r \in active_rooms')
            => heap'[r].call_ended
       /\ (r < next_room /\ r \notin active_rooms) =>
            /\ r \notin active_rooms'
            /\ \A t \in Clients :
                 (pc[t] = "idle" /\ pc'[t] # "idle"
                  /\ frame'[t].op = "request_join" /\ frame'[t].room_id = r)
                 => /\ pc'[t] = "done"
                    /\ ret'[t].kind = "RoomNotFound"
                    /\ heap' = heap]_vars

\* A join has found room r gone after the room was ended and then removed by
\* the sweep, while another room sits in the registry with its flag set.
C3_Witness ==
  \E t \in Clients, r \in RoomIds, q \in active_rooms :
    /\ pc[t] = "done" /\ frame[t].op = "request_join" /\ frame[t].room_id = r
    /\ ret[t].kind = "RoomNotFound"
    /\ r \in end_called /\ r \notin active_rooms
    /\ heap[q].call_ended
    /\ ~exiting

\* C4: a request_join on a room that is in the registry gets to the lookup;
\* on a room whose flag is not set it gets to the capacity test; there, with
\* fewer than 10 participants it goes on to append, and with 10 or more it
\* returns "Room is full" and changes nothing; its append puts exactly one
\* new participant at the end of the list; its last step sets last_activity
\* to the time of that step and returns success with that participant's id.
\* So a join that has returned on a registered room whose flag is not set
\* has either succeeded or found 10 participants or more.
C4_JoinContract ==
  /\ [](\A t \in Clients :
          (/\ pc[t] = "done" /\ frame[t].op = "request_join"
           /\ frame[t].room_id \in active_rooms
           /\ ~heap[frame[t].room_id].call_ended) =>
            \/ /\ ret[t].kind = "Joined"
               /\ \E i \in DOMAIN heap[frame[t].room_id].participants :
                    heap[frame[t].room_id].participants[i] = ret[t].user_id
            \/ /\ ret[t].kind = "RoomFull"
               /\ Len(heap[frame[t].room_id].participants) >= 10)
  /\ [][\A t \in Clients :
          LET r == frame[t].room
              before == heap[r].participants
          IN /\ (/\ pc[t] = "idle" /\ pc'[t] # "idle"
                 /\ frame'[t].op = "request_join"
                 /\ frame'[t].room_id \in active_rooms)
                  => pc'[t] = "join_lookup"
             /\ (/\ pc[t] = "join_ended" /\ pc'[t] # "join_ended"
                 /\ ~heap[r].call_ended)
                  => pc'[t] = "join_full" /\ heap' = heap
             /\ (pc[t] = "join_full" /\ pc'[t] # "join_full") =>
                  /\ heap' = heap /\ active_rooms' = active_rooms
                  /\ IF Len(before) < 10
                       THEN pc'[t] = "join_append"
                       ELSE pc'[t] = "done" /\ ret'[t].kind = "RoomFull"
             /\ (pc[t] = "join_append" /\ pc'[t] # "join_append") =>
                  /\ heap'[r].participants = Append(before, frame'[t].user_id)
                  /\ Len(heap'[r].participants) = Len(before) + 1
                  /\ \A i \in DOMAIN before : before[i] # frame'[t].user_id
             /\ (pc[t] = "join_touch" /\ pc'[t] # "join_touch") =>
                  /\ pc'[t] = "done" /\ ret'[t].kind = "Joined"
                  /\ ret'[t].user_id = frame[t].user_id
                  /\ heap'[r].last_activity = now
                  /\ heap'[r].participants = before]_vars

\* A join has been refused with "Room is full" on a room of exactly 10
\* participants, nine of them appended by joins that succeeded.
C4_Witness ==
  \E t \in Clients :
    /\ pc[t] = "done" /\ frame[t].op = "request_join"
    /\ ret[t].kind = "RoomFull"
    /\ frame[t].room_id \in active_rooms
    /\ Len(heap[frame[t].room_id].participants) = 10
    /\ heap[frame[t].room_id].last_activity > 0

\* C5: a sweep cycle judges each room by the last_activity it reads in its
\* scan: it notes the room for removal exactly when that is more than 1800
\* seconds before the cycle's `now`, whatever the room's flag.  When the
\* cycle finishes, no room whose last_activity is more than 1800 seconds
\* before the cycle's `now` is in the registry.  The only rooms a step of the
\* cycle takes out of the registry are rooms it noted, and every room it
\* leaves in the registry keeps all its fields.
C5_SweepRemovesTheStale ==
  [][(sweep.pc \in {"scan", "clean_in", "clean_del"} /\ sweep' # sweep) =>
       /\ active_rooms' \subseteq active_rooms
       /\ \A r \in active_rooms' : heap'[r] = heap[r]
       /\ \A r \in active_rooms \ active_rooms' :
            /\ sweep.pc = "clean_del"
            /\ r = Head(sweep.stale_rooms)
       /\ (sweep'.pc \in {"scan", "clean_in"} /\ sweep.pc = "scan") =>
            /\ \A i \in DOMAIN sweep.stale_rooms :
                 sweep'.stale_rooms[i] = sweep.stale_rooms[i]
            /\ \A r \in active_rooms :
                 (sweep.pos < r /\ r <= sweep'.pos) =>
                   ((sweep.now - heap[r].last_activity > 1800)
                      <=> (/\ Len(sweep'.stale_rooms) = Len(sweep.stale_rooms) + 1
                           /\ sweep'.stale_rooms[Len(sweep'.stale_rooms)] = r))
            /\ Len(sweep'.stale_rooms) <= Len(sweep.stale_rooms) + 1
            /\ Len(sweep'.stale_rooms) = Len(sweep.stale_rooms) + 1 =>
                 sweep'.stale_rooms[Len(sweep'.stale_rooms)] = sweep'.pos
       /\ sweep'.pc = "sleep" =>
            \A r \in active_rooms' :
              ~(sweep.now - heap'[r].last_activity > 1800)]_vars

\* A cycle has just finished: it has removed a room whose flag was set, and
\* has left a room that was active within the last 1800 seconds.
C5_Witness ==
  /\ sweep.pc = "sleep" /\ sweep.sleep_left = SleepPeriod
  /\ ~exiting
  /\ \E r \in end_called : r \notin active_rooms
  /\ \E q \in active_rooms :
       now - heap[q].last_activity <= 1800

\* C6: while the program runs, the sweep thread does not end: no create,
\* join or end of a handler, and no error inside a cycle, stops the cycles
\* to come.
C6_SweepNeverStops == ~exiting => sweep.pc \notin SweepErrors

\* C7: the operations on the room table exclude one another: no state has a
\* handler call between its membership test and its access to the entry
\* while another handler call is between its own two, or while the sweep is
\* between the first and the last table access of its cycle.
C7_Serialized ==
  LET inside == {t \in Clients :
                   pc[t] \in {"join_lookup", "end_set", "can_get",
                              "status_lookup"}}
      sweeping == sweep.pc \in {"scan", "clean_in", "clean_del"}
  IN Cardinality(inside) + (IF sweeping THEN 1 ELSE 0) <= 1

\* C8: the emergency clear is safe to run while a sweep cycle is under way:
\* once it has run, no step of the sweep ends in an error.
C8_ClearSafeWithSweep ==
  [][(exiting /\ sweep'.pc \in SweepErrors) => sweep.pc \in SweepErrors]_vars

\* C9: create_room_interface reaches create_room exactly for the names that
\* are not empty once stripped, and a create_room that returns has added
\* exactly one room, under an id never issued before, whose creator and only
\* participant is the participant id returned, with the flag not set and
\* every other room as it was; run at that moment, can_start_call on the
\* returned room id gives True and get_status reports 1 participant, the
\* creator's name.
C9_CreateRoom ==
  [][\A t \in Clients :
       (pc[t] = "idle" /\ pc'[t] = "done"
        /\ frame'[t].op \in {"create_room", "create_room_interface"}) =>
         /\ frame'[t].op = "create_room_interface" =>
              (ret'[t].kind = "Created" <=> Strip(frame'[t].user_name) # <<>>)
         /\ ret'[t].kind = "Created" =>
              LET r == ret'[t].room_id
                  u == ret'[t].user_id
              IN /\ r \in RoomIds /\ r >= next_room /\ r \notin active_rooms
                 /\ r \notin end_called
                 /\ active_rooms' = active_rooms \cup {r}
                 /\ \A q \in active_rooms : heap'[q] = heap[q]
                 /\ heap'[r].participants = <<u>>
                 /\ heap'[r].creator = u
                 /\ heap'[r].call_ended = FALSE
                 /\ heap'[r].last_activity = now
                 /\ CanStartCall(active_rooms', heap', r)
                 /\ GetStatus(active_rooms', heap', r)
                      = Active(1, <<frame'[t].user_name>>)]_vars

\* A second room has just been created while the first is in the registry.
C9_Witness ==
  \E t \in Clients :
    /\ pc[t] = "done" /\ ret[t].kind = "Created"
    /\ frame[t].user_name = <<"a">>
    /\ ret[t].room_id = 2
    /\ active_rooms = {1, 2}
    /\ Len(heap[1].participants) = 2

\* C10: create_room itself, whatever its caller has tested, fails with
\* InvalidInput on a name that is empty once stripped (and so adds no room).
C10_RegistryRejectsEmptyName ==
  \A t \in Clients :
    (pc[t] = "done" /\ frame[t].op = "create_room"
     /\ Strip(frame[t].user_name) = <<>>) =>
      ret[t].kind = "InvalidInput"

\* C11: a request_join or a get_status on an id that is not in the registry
\* returns "Room not found" at once and leaves the registry as it was, with
\* one and the same result whether the id was never issued or was issued and
\* its room has been removed by the sweep: nothing in the result or in the
\* state left tells the two apart.
C11_NotFoundIndistinguishable ==
  [][\A t \in Clients :
       (/\ pc[t] = "idle" /\ pc'[t] # "idle"
        /\ frame'[t].op \in {"request_join", "get_status"}
        /\ frame'[t].room_id \notin active_rooms) =>
         /\ frame'[t].room_id = Unknown \/ frame'[t].room_id < next_room
         /\ pc'[t] = "done"
         /\ ret'[t] = Ret("RoomNotFound")
         /\ active_rooms' = active_rooms
         /\ heap' = heap]_vars

\* A request_join has returned on the id of a room that the sweep removed.
C11_Witness ==
  \E t \in Clients :
    /\ pc[t] = "done" /\ frame[t].op = "request_join"
    /\ frame[t].room_id # Unknown /\ frame[t].room_id < next_room
    /\ frame[t].room_id \notin active_rooms
    /\ ret[t] = Ret("RoomNotFound")
    /\ ~exiting

\* C12: on every state of the registry and for every room id, in the
\* registry with its flag set or not, or absent: cleanup_room run twice in
\* succession leaves the registry that running it once leaves, and so does
\* end_call_permanently; on an absent id each leaves the registry as it
\* was.  The steps of the program are these methods: the store of
\* end_call_permanently and the del of the sweep's cleanup_room change the
\* registry as the methods run on their own do.
C12_Idempotence ==
  /\ [](\A r \in RoomIds \cup {Unknown} :
          LET rooms == Registry(active_rooms, heap)
          IN /\ CleanupRoom(CleanupRoom(rooms, r), r) = CleanupRoom(rooms, r)
             /\ EndCallPermanently(EndCallPermanently(rooms, r), r)
                  = EndCallPermanently(rooms, r)
             /\ r \notin active_rooms =>
                  /\ CleanupRoom(rooms, r) = rooms
                  /\ EndCallPermanently(rooms, r) = rooms
             /\ r \in active_rooms =>
                  /\ DOMAIN CleanupRoom(rooms, r) = active_rooms \ {r}
                  /\ EndCallPermanently(rooms, r)[r].call_ended)
  /\ [][/\ \A t \in Clients :
             (pc[t] = "end_set" /\ pc'[t] = "done"
              /\ frame[t].room_id \in active_rooms) =>
               Registry(active_rooms', heap')
                 = EndCallPermanently(Registry(active_rooms, heap),
                                      frame[t].room_id)
        /\ (sweep.pc = "clean_del" /\ sweep' # sweep
            /\ sweep'.pc \notin SweepErrors) =>
             Registry(active_rooms', heap')
               = CleanupRoom(Registry(active_rooms, heap),
                             Head(sweep.stale_rooms))
        /\ \A t \in Clients :
             (pc[t] = "idle" /\ pc'[t] = "done"
              /\ frame'[t].op = "end_call_permanently") =>
               /\ frame'[t].room_id \notin active_rooms
               /\ Registry(active_rooms', heap') = Registry(active_rooms, heap)
       ]_vars

\* An end_call_permanently has returned on a room that is in the registry
\* and whose flag an earlier end_call_permanently had set.
C12_Witness ==
  \E t \in Clients :
    /\ pc[t] = "done" /\ frame[t].op = "end_call_permanently"
    /\ frame[t].after_end
    /\ ret[t].kind = "None"
    /\ frame[t].room_id \in active_rooms
    /\ heap[frame[t].room_id].call_ended

\* C13: get_status only reads.  Every step of a get_status call, on an id
\* that is absent, in the registry, or in it with the flag set, leaves the
\* registry as it was: the same keys, and every field of every room,
\* last_activity included, unchanged.
C13_GetStatusReadOnly ==
  [][\A t \in Clients :
       (/\ pc'[t] # pc[t]
        /\ \/ pc[t] = "idle" /\ frame'[t].op = "get_status"
           \/ pc[t] \in {"status_lookup", "status_ended", "status_len",
                         "status_names"}) =>
         /\ active_rooms' = active_rooms
         /\ \A r \in active_rooms : heap'[r] = heap[r]
         /\ UNCHANGED <<next_room, now, exiting, end_called, sweep>>]_vars

\* A get_status has reported an active room whose last activity lies in the
\* past, and it still does.
C13_Witness ==
  \E t \in Clients :
    /\ pc[t] = "done" /\ frame[t].op = "get_status"
    /\ ret[t].kind = "Active" /\ ret[t].count = 2
    /\ frame[t].room_id \in active_rooms
    /\ heap[frame[t].room_id].last_activity < now

\* C14: the video_enabled and audio_enabled flags that serve a client change
\* only in a step of that client's own toggle, or of that client's own
\* end-call on a room id: no toggle or end-call of another client, and no
\* end-call without a room id, changes them.
C14_FlagsChangeOnlyByOwner ==
  [][\A t \in Clients :
       call_handler' # call_handler =>
         /\ ui'[t] # ui[t]
         /\ \/ ui[t].op = "toggle"
            \/ ui[t].op = "end_call_interface" /\ ui[t].room_id # Unknown]_vars

\* C15: a toggle flips its flag and leaves the other flag alone, and returns
\* the value it has set, also when another toggle, end-call or frame
\* callback runs on the controller at the same time: no toggle is lost, so
\* two completed toggles of a flag restore its value.
C15_ToggleFlips ==
  [][\A t \in Clients :
       /\ (ui[t].pc = "toggle_store" /\ ui'[t].pc = "toggle_return") =>
            /\ call_handler'[ui[t].flag] = ~call_handler[ui[t].flag]
            /\ \A flag \in {"video_enabled", "audio_enabled"} \ {ui[t].flag} :
                 call_handler'[flag] = call_handler[flag]
       /\ (ui[t].pc = "toggle_return" /\ ui'[t].pc = "done") =>
            ui'[t].value = ui[t].value]_vars

\* C16: video_handler and audio_handler never return None: each returns
\* what it was given exactly when that is not None and its flag is on, and
\* otherwise the blank frame (the block of silence); this for each value of
\* the flag and each input, None included.  They change no flag.
C16_HandlersNeverNone ==
  [][\A t \in Clients :
       (/\ ui[t].pc = "idle" /\ ui'[t].pc = "done"
        /\ ui'[t].op \in {"video_handler", "audio_handler"}) =>
         LET video == ui'[t].op = "video_handler"
             given == ui'[t].input
             out == ui'[t].ret
             enabled == IF video THEN call_handler.video_enabled
                        ELSE call_handler.audio_enabled
         IN /\ out # "None"
            /\ (out = given) <=> (enabled /\ given # "None")
            /\ ~(enabled /\ given # "None") =>
                 out = IF video THEN "blank_frame" ELSE "silence"
            /\ call_handler' = call_handler]_vars

\* video_handler, given None while video is on, has returned the blank frame.
C16_Witness ==
  \E t \in Clients :
    /\ ui[t].pc = "done" /\ ui[t].op = "video_handler"
    /\ ui[t].input = "None" /\ ui[t].ret = "blank_frame"
    /\ call_handler.video_enabled
    /\ ~call_handler.audio_enabled

\* C17: once the flag of a room is set, the end has won over every join: no
\* step appends a participant to a room in the registry whose flag is set,
\* and no request_join on it returns success.
C17_EndedRoomNeverGrows ==
  [][\A r \in active_rooms :
       (heap[r].call_ended /\ r \in active_rooms') =>
         /\ heap'[r].participants = heap[r].participants
         /\ \A t \in Clients :
              (pc[t] # "done" /\ pc'[t] = "done" /\ frame'[t].room_id = r)
                => ret'[t].kind # "Joined"]_vars

\* C18: while the program runs, a request_join that returns success returns
\* the id of a room that is in the registry at that moment, with the
\* participant id returned in that room's participants: no join is
\* acknowledged on a room that the sweep has removed.
C18_JoinedRoomIsRegistered ==
  \A t \in Clients :
    (/\ pc[t] = "done" /\ frame[t].op = "request_join"
     /\ ret[t].kind = "Joined" /\ ~exiting) =>
      /\ ret[t].room_id \in active_rooms
      /\ \E i \in DOMAIN heap[ret[t].room_id].participants :
           heap[ret[t].room_id].participants[i] = ret[t].user_id

\* C19: in every reachable state and for every room in the registry, the
\* keys of user_names are among the participants; and when no request_join
\* on that room is in progress the keys are exactly the participants, one
\* name each, so that the count and the names get_status reports agree.
C19_NamesMatchParticipants ==
  \A r \in active_rooms :
    LET keys == {heap[r].user_names[i].id : i \in DOMAIN heap[r].user_names}
        members == {heap[r].participants[i] :
                      i \in DOMAIN heap[r].participants}
        joining == {t \in Clients : /\ frame[t].op = "request_join"
                                    /\ frame[t].room_id = r
                                    /\ pc[t] \notin {"idle", "done"}}
    IN /\ keys \subseteq members
       /\ joining = {} =>
            /\ keys = members
            /\ Len(heap[r].user_names) = Len(heap[r].participants)
            /\ Cardinality(keys) = Len(heap[r].user_names)
            /\ GetStatus(active_rooms, heap, r).count
                 = Len(GetStatus(active_rooms, heap, r).names)

\* A join has just returned on a room that two racing joins have entered:
\* no join is in progress, and there are three participants and three names.
C19_Witness ==
  \E t \in Clients, r \in active_rooms :
    /\ pc[t] = "done" /\ ret[t].kind = "Joined" /\ ret[t].room_id = r
    /\ \A q \in Clients : q # t => pc[q] = "idle"
    /\ Len(heap[r].participants) = 3
    /\ Len(heap[r].user_names) = 3
    /\ ret[t].user_id = 2

\* C20: a request_join that fails, with "Room not found", "Call has ended"
\* or "Room is full", has changed nothing: it returns from its membership
\* test, its flag test or its capacity test, and no step of a request_join
\* up to and including the capacity test changes the registry or the room
\* the call holds: no participant appended, no name recorded, last_activity
\* not bumped.
C20_FailedJoinChangesNothing ==
  [][\A t \in Clients :
       /\ (/\ pc'[t] # pc[t]
           /\ \/ pc[t] = "idle" /\ frame'[t].op = "request_join"
              \/ pc[t] \in {"join_lookup", "join_ended", "join_full"}) =>
            /\ active_rooms' = active_rooms
            /\ \A r \in active_rooms : heap'[r] = heap[r]
            /\ pc'[t] # "done" /\ frame'[t].room # 0 =>
                 heap'[frame'[t].room] = heap[frame'[t].room]
            /\ UNCHANGED <<next_room, now, end_called>>
       /\ (/\ pc[t] # "done" /\ pc'[t] = "done"
           /\ frame'[t].op = "request_join"
           /\ ret'[t].kind \in {"RoomNotFound", "CallEnded", "RoomFull"}) =>
            \/ pc[t] = "idle" /\ ret'[t].kind = "RoomNotFound"
            \/ pc[t] = "join_ended" /\ ret'[t].kind = "CallEnded"
            \/ pc[t] = "join_full" /\ ret'[t].kind = "RoomFull"]_vars

\* A join has been refused with "Call has ended" on a room that had filled
\* up before its call was ended, some time after the room's last activity.
C20_Witness ==
  \E t \in Clients :
    /\ pc[t] = "done" /\ frame[t].op = "request_join"
    /\ ret[t].kind = "CallEnded"
    /\ frame[t].room_id \in active_rooms
    /\ Len(heap[frame[t].room_id].participants) = 10
    /\ heap[frame[t].room_id].last_activity < now

====
